---- MODULE Spec2Model ----
(***************************************************************************)
(* word2morph inference / evaluation pipeline.                             *)
(*                                                                         *)
(*   src/word2morph/api.py            Word2Morph.predict / evaluate /      *)
(*                                    __getitem__                          *)
(*   src/word2morph/util/metrics.py   Evaluate.evaluate / on_epoch_end,    *)
(*                                    multi_class_roc_auc_score            *)
(*                                                                         *)
(* Sample, Dataset, DataGenerator and DataProcessor are imported by these  *)
(* files but live elsewhere in the repository; they are modelled from the  *)
(* specification (sections 3, 4.1, 4.2).  The keras Model is an opaque,    *)
(* deterministic, row-wise map from an encoded word to a tensor of         *)
(* per-character class scores; the value it gives for an encoded word is   *)
(* chosen the first time the word is fed to it and remembered (net).       *)
(*                                                                         *)
(* numpy / sklearn calls are modelled by their library behaviour:          *)
(*   np.argmax          first index of the maximum; ValueError on an empty *)
(*                      1-d array                                          *)
(*   confusion_matrix   without labels=: indexed by the sorted classes     *)
(*                      that occur in y_true or y_pred                     *)
(*   LabelBinarizer     one column for two fitted classes (a column of     *)
(*                      zeros for one), one column per class otherwise     *)
(*   roc_auc_score      ValueError when y_true holds one class only, and   *)
(*                      when a one-column y_true meets a wider y_score     *)
(* loss, precision, recall, f1 and the value of auc are not computed: none *)
(* of them raises on the tensors of this model and no property reads them. *)
(***************************************************************************)
EXTENDS Integers, Sequences, FiniteSets, TLC

VARIABLES
    pc,                 \* "idle" | "predict" | "evaluate" | "returned" | "raised"
    op,                 \* the API entry point that was called
    inputs,             \* argument: List[Sample]
    batch_size,         \* argument: int
    item,               \* argument of __getitem__
    net,                \* the model: encoded word -> prediction tensor, as far as it was queried
    model_calls,        \* number of self.model.predict invocations
    step,               \* batches already taken from the data generator
    predicted_samples,  \* predict(): the accumulator
    epoch_labels,       \* on_epoch_end(): per batch label tensors
    epoch_predictions,  \* on_epoch_end(): per batch prediction tensors
    epoch_samples,      \* on_epoch_end(): per batch samples
    all_samples,        \* on_epoch_end(): flat list of samples
    logs,               \* on_epoch_end(): metric name -> value
    result,             \* the value returned
    error               \* the exception raised, "none" otherwise

vars == <<pc, op, inputs, batch_size, item, net, model_calls, step, predicted_samples,
          epoch_labels, epoch_predictions, epoch_samples, all_samples, logs, result, error>>

(***************************************************************************)
(* Bounds of the model.                                                    *)
(***************************************************************************)
MaxSamples == 3
MaxBatch == 2

(***************************************************************************)
(* Tag vocabulary (spec section 3): pad / boundary-start / continuation.   *)
(***************************************************************************)
PAD == 0
BEGIN == 1
CONT == 2
Classes == {PAD, BEGIN, CONT}

\* The words of the model's universe, and the reserved pad symbol.
Words == {<<"a">>, <<"a", "b">>}
PadChar == "_"

Max(S) == CHOOSE m \in S : \A n \in S : n <= m
Min(S) == CHOOSE m \in S : \A n \in S : m <= n
max_word_len == Max({Len(w) : w \in Words})

\* The elements of a finite set of integers in increasing order.
RECURSIVE Sorted(_)
Sorted(S) ==
    IF S = {} THEN <<>> ELSE <<Min(S)>> \o Sorted(S \ {Min(S)})

RECURSIVE Concat(_)
Concat(seqs) ==
    IF seqs = <<>> THEN <<>> ELSE Head(seqs) \o Concat(Tail(seqs))

None == "None"

(***************************************************************************)
(* Sample: a word and its segmentation.  Slice cuts a word at the given    *)
(* start positions (1-based, always holding 1).                            *)
(***************************************************************************)
Sample(word, segments) == [word |-> word, segments |-> segments]

Slice(word, starts) ==
    LET s == Sorted(starts)
        stop(k) == IF k = Len(s) THEN Len(word) ELSE s[k + 1] - 1
    IN  [k \in 1..Len(s) |-> SubSeq(word, s[k], stop(k))]

Segmentations(word) ==
    {Slice(word, {1} \cup cuts) : cuts \in SUBSET (2..Len(word))}

\* Samples with a ground-truth segmentation.
Samples == UNION {{Sample(w, segs) : segs \in Segmentations(w)} : w \in Words}

(***************************************************************************)
(* Tensors.  A class-score vector maps each class to a score; a tensor is  *)
(* a sequence of max_word_len vectors.                                     *)
(***************************************************************************)
OneHot(c) == [k \in Classes |-> IF k = c THEN 1 ELSE 0]
Tie == [k \in Classes |-> IF k = PAD THEN 0 ELSE 2]
Probs == {OneHot(c) : c \in Classes} \cup {Tie}
Tensors == [1..max_word_len -> Probs]

\* np.argmax(v, axis=-1): the first index holding the maximum.
ArgMax(v) ==
    CHOOSE c \in DOMAIN v :
        /\ \A d \in DOMAIN v : v[d] <= v[c]
        /\ \A d \in DOMAIN v : d < c => v[d] < v[c]

TagsOf(tensor) == [k \in 1..Len(tensor) |-> ArgMax(tensor[k])]

(***************************************************************************)
(* DataProcessor (spec section 4.1).                                       *)
(***************************************************************************)
EncodeWord(word) ==
    [k \in 1..max_word_len |-> IF k <= Len(word) THEN word[k] ELSE PadChar]

RECURSIVE SegStarts(_, _)
SegStarts(segments, at) ==
    IF segments = <<>> THEN {}
    ELSE {at} \cup SegStarts(Tail(segments), at + Len(Head(segments)))

EncodeTags(sample) ==
    LET starts == SegStarts(sample.segments, 1)
    IN  [k \in 1..max_word_len |->
            IF k > Len(sample.word) THEN PAD
            ELSE IF k \in starts THEN BEGIN ELSE CONT]

\* One-hot labels; None for a sample that carries no segments.
EncodeLabels(sample) ==
    LET tags == EncodeTags(sample)
    IN  IF sample.segments = <<>> THEN None
        ELSE [k \in 1..max_word_len |-> OneHot(tags[k])]

\* parse(batch, convert_one_hot=True) -> (inputs, labels)
parse(batch) ==
    [inputs |-> [k \in 1..Len(batch) |-> EncodeWord(batch[k].word)],
     labels |-> [k \in 1..Len(batch) |-> EncodeLabels(batch[k])]]

\* parse_one(sample): parse([sample]) with the batch dimension stripped
parse_one(sample) ==
    LET p == parse(<<sample>>)
    IN  [inputs |-> p.inputs[1], labels |-> p.labels[1]]

\* to_sample(word, prediction): arg-max tag per character of the word; a
\* segment starts at the first character and at every boundary-start tag,
\* so a continuation or pad tag on the first character is repaired.
to_sample(word, prediction) ==
    LET tags == TagsOf(prediction)
        starts == {1} \cup {k \in 2..Len(word) : tags[k] = BEGIN}
    IN  Sample(word, Slice(word, starts))

(***************************************************************************)
(* DataGenerator with shuffle=False (spec section 4.2).                    *)
(***************************************************************************)
\* len(data_generator) = ceil(N / B)
GenLen(samples, B) == (Len(samples) + B - 1) \div B

\* batch i (0-based): the dataset slice [i*B, min((i+1)*B, N))
GenBatch(samples, B, i) ==
    SubSeq(samples, i * B + 1, Min({(i + 1) * B, Len(samples)}))

(***************************************************************************)
(* The model.                                                              *)
(***************************************************************************)
\* self.model.predict(batch_inputs) on a network that knows every row
ModelPredict(nn, batch_inputs) ==
    [k \in 1..Len(batch_inputs) |-> nn[batch_inputs[k]]]

Rows(batch_inputs) == {batch_inputs[k] : k \in 1..Len(batch_inputs)}

\* The networks that agree with nn on what it was asked before and answer
\* every row of batch_inputs.
Extensions(nn, batch_inputs) ==
    LET new == Rows(batch_inputs) \ DOMAIN nn
    IN  {nn @@ ext : ext \in [new -> Tensors]}

(***************************************************************************)
(* Word2Morph.predict                                                      *)
(***************************************************************************)
\* Variant of PredictStep: "=" for "+=", so each batch replaces the list.
PredictStepOverwrite(acc, samples, predictions) ==
    [k \in 1..Min({Len(samples), Len(predictions)}) |->
        to_sample(samples[k].word, predictions[k])]

\* One pass of the loop body: decode every row of the batch and append.
PredictStep(acc, samples, predictions) ==
    acc \o [k \in 1..Min({Len(samples), Len(predictions)}) |->
                to_sample(samples[k].word, predictions[k])]

\* predict() as a function of a network that knows every word of inputs.
RECURSIVE PredictFrom(_, _, _, _, _)
PredictFrom(nn, samples, B, i, acc) ==
    IF i >= GenLen(samples, B) THEN acc
    ELSE LET batch == GenBatch(samples, B, i)
             predictions == ModelPredict(nn, parse(batch).inputs)
         IN  PredictFrom(nn, samples, B, i + 1, PredictStep(acc, batch, predictions))

predict(nn, samples, B) == PredictFrom(nn, samples, B, 0, <<>>)

(***************************************************************************)
(* Word2Morph.__getitem__                                                  *)
(***************************************************************************)
Items ==
    {[kind |-> "str", value |-> w] : w \in Words}
        \cup {[kind |-> "Sample", value |-> s] : s \in Samples}

\* sample = Sample(word=item, segments=tuple()) if type(item) == str else item
AsSample(it) ==
    IF it.kind = "str" THEN Sample(it.value, <<>>) ELSE it.value

\* Variant of getitem: an item that is already a Sample is handed back as it is.
getitem_passthrough(nn, it) ==
    LET sample == AsSample(it)
        row == parse_one(sample).inputs
        prediction == ModelPredict(nn, <<row>>)[1]
    IN  IF it.kind = "Sample" THEN sample ELSE to_sample(sample.word, prediction)

\* The decoded Sample, on a network that knows the word.
getitem(nn, it) ==
    LET sample == AsSample(it)
        row == parse_one(sample).inputs
        prediction == ModelPredict(nn, <<row>>)[1]
    IN  to_sample(sample.word, prediction)

(***************************************************************************)
(* Evaluate.evaluate                                                       *)
(***************************************************************************)
Ratio(n, d) == [num |-> n, den |-> d]

ZipLen(a, b) == Min({Len(a), Len(b)})

\* Variant of WordEqual: the tensors are compared without taking the arg-max.
WordEqualRaw(word_prediction, word_label) ==
    word_prediction = word_label

\* np.array_equal(np.argmax(word_prediction, -1), np.argmax(word_label, -1))
WordEqual(word_prediction, word_label) ==
    TagsOf(word_prediction) = TagsOf(word_label)

\* The loop over the batches: correct and nb_words.
RECURSIVE WordCounts(_, _)
WordCounts(predictions, labels) ==
    IF predictions = <<>> \/ labels = <<>> THEN [correct |-> 0, nb_words |-> 0]
    ELSE LET batch_prediction == Head(predictions)
             batch_label == Head(labels)
             hits == {k \in 1..ZipLen(batch_prediction, batch_label) :
                         WordEqual(batch_prediction[k], batch_label[k])}
             rest == WordCounts(Tail(predictions), Tail(labels))
         IN  [correct |-> Cardinality(hits) + rest.correct,
              nb_words |-> Len(batch_label) + rest.nb_words]

\* char_predictions / char_labels: the class vectors of every word of every batch
CharRows(batches) == Concat(Concat(batches))

\* sklearn.utils.multiclass.unique_labels(y_true, y_pred)
unique_labels(t, p) ==
    Sorted({t[k] : k \in 1..Len(t)} \cup {p[k] : k \in 1..Len(p)})

\* Variant of confusion_matrix: the arguments swapped, rows predicted.
confusion_matrix_swapped(t, p) ==
    LET labs == unique_labels(t, p)
    IN  [i \in 1..Len(labs) |-> [j \in 1..Len(labs) |->
            Cardinality({k \in 1..Len(t) : p[k] = labs[i] /\ t[k] = labs[j]})]]

\* sklearn.metrics.confusion_matrix(t, p): rows true, columns predicted
confusion_matrix(t, p) ==
    LET labs == unique_labels(t, p)
    IN  [i \in 1..Len(labs) |-> [j \in 1..Len(labs) |->
            Cardinality({k \in 1..Len(t) : t[k] = labs[i] /\ p[k] = labs[j]})]]

\* sklearn.metrics.accuracy_score(t, p)
accuracy_score(t, p) ==
    Ratio(Cardinality({k \in 1..Len(t) : t[k] = p[k]}), Len(t))

\* multi_class_roc_auc_score(t, p): a LabelBinarizer fitted on t transforms
\* t and p, then roc_auc_score.  It raises ValueError
\*   - when t holds one class: the transform of t is a column of zeros
\*     ("Only one class present in y_true");
\*   - when t holds two classes and p three or more: t becomes one column
\*     and p, a multiclass target, one column per fitted class, which the
\*     binary ROC curve rejects ("bad input shape").
multi_class_roc_auc_score(t, p) ==
    LET fitted == {t[k] : k \in 1..Len(t)}
        predicted == {p[k] : k \in 1..Len(p)}
    IN  IF Cardinality(fitted) = 1 THEN "ValueError"
        ELSE IF Cardinality(fitted) = 2 /\ Cardinality(predicted) >= 3 THEN "ValueError"
        ELSE "float"

MetricNames ==
    {"confusion_matrix", "word_acc", "acc", "loss", "precision", "recall", "f1", "auc"}

\* [raised, metrics]: the exception that ends the call, or the metric record.
Evaluate(predictions, labels) ==
    LET counts == WordCounts(predictions, labels)
        char_predictions == CharRows(predictions)
        char_labels == CharRows(labels)
        t == [k \in 1..Len(char_labels) |-> ArgMax(char_labels[k])]
        p == [k \in 1..Len(char_predictions) |-> ArgMax(char_predictions[k])]
        auc == multi_class_roc_auc_score(t, p)
    IN  IF char_labels = <<>> \/ char_predictions = <<>>
            THEN [raised |-> "ValueError", metrics |-> None]
        ELSE IF counts.nb_words = 0
            THEN [raised |-> "ZeroDivisionError", metrics |-> None]
        ELSE IF auc = "ValueError"
            THEN [raised |-> "ValueError", metrics |-> None]
        ELSE [raised |-> "none",
              metrics |-> [m \in MetricNames |->
                  CASE m = "confusion_matrix" -> confusion_matrix(t, p)
                    [] m = "word_acc" -> Ratio(counts.correct, counts.nb_words)
                    [] m = "acc" -> accuracy_score(t, p)
                    [] OTHER -> "float"]]

(***************************************************************************)
(* Evaluate.__init__ and Evaluate.on_epoch_end                             *)
(***************************************************************************)
prepend_str == "test_"

\* self.nb_steps = nb_steps if nb_steps else len(data_generator)
NbSteps(nb_steps, gen_len) == IF nb_steps # 0 THEN nb_steps ELSE gen_len

\* zip(range(self.nb_steps), self.data_generator)
EpochSteps(samples, B) ==
    Min({NbSteps(GenLen(samples, B), GenLen(samples, B)), GenLen(samples, B)})

\* for metric_name, metric_value in metrics: logs[prefix + name + suffix] = value
Logged(old, metrics, suffix) ==
    LET keys == {prepend_str \o m \o suffix : m \in DOMAIN metrics}
        name(key) == CHOOSE m \in DOMAIN metrics : prepend_str \o m \o suffix = key
    IN  [key \in keys |-> metrics[name(key)]] @@ old

\* Variant of DecodeAll: word_label is decoded in place of word_prediction.
RECURSIVE DecodeAllFromLabels(_, _, _)
DecodeAllFromLabels(predictions, labels, samples) ==
    IF predictions = <<>> \/ labels = <<>> \/ samples = <<>> THEN <<>>
    ELSE LET bp == Head(predictions)
             bl == Head(labels)
             bs == Head(samples)
             n == Min({Len(bp), Len(bl), Len(bs)})
         IN  [k \in 1..n |-> to_sample(bs[k].word, bl[k])]
                 \o DecodeAllFromLabels(Tail(predictions), Tail(labels), Tail(samples))

\* The decoding loop: one to_sample per word, batch after batch.
RECURSIVE DecodeAll(_, _, _)
DecodeAll(predictions, labels, samples) ==
    IF predictions = <<>> \/ labels = <<>> \/ samples = <<>> THEN <<>>
    ELSE LET bp == Head(predictions)
             bl == Head(labels)
             bs == Head(samples)
             n == Min({Len(bp), Len(bl), Len(bs)})
         IN  [k \in 1..n |-> to_sample(bs[k].word, bp[k])]
                 \o DecodeAll(Tail(predictions), Tail(labels), Tail(samples))

\* The metric pass that is logged under the "_processed" keys.
ProcessedMetrics(predictions, labels, decoded) ==
    Evaluate(predictions, labels)

\* [(pred, correct) for correct, pred in zip(all_samples, predicted_samples) if keep]
Pairs(samples, decoded, equal) ==
    LET idx == Sorted({k \in 1..ZipLen(samples, decoded) :
                          (decoded[k] = samples[k]) = equal})
    IN  [n \in 1..Len(idx) |-> <<decoded[idx[n]], samples[idx[n]]>>]

\* Everything after the batch loop: what is raised or returned, and the logs.
EpochEnd(predictions, labels, samples, flat, old_logs) ==
    LET raw == Evaluate(predictions, labels)
        logs1 == Logged(old_logs, raw.metrics, "")
        decoded == DecodeAll(predictions, labels, samples)
        processed == ProcessedMetrics(predictions, labels, decoded)
        logs2 == Logged(logs1, processed.metrics, "_processed")
        fail(e, l) == [raised |-> e, logs |-> l, predicted |-> <<>>, value |-> None]
    IN  IF raw.raised # "none" THEN fail(raw.raised, old_logs)
        ELSE IF Len(flat) # Len(decoded) THEN fail("AssertionError", logs1)
        ELSE IF processed.raised # "none" THEN fail(processed.raised, logs1)
        ELSE IF Len(flat) = 0 THEN fail("ZeroDivisionError", logs2)
        ELSE [raised |-> "none", logs |-> logs2, predicted |-> decoded,
              value |-> [correct |-> Pairs(flat, decoded, TRUE),
                         wrong |-> Pairs(flat, decoded, FALSE),
                         all_predictions |-> decoded]]

NoMetrics == <<>>


Init ==
    /\ pc = "idle"
    /\ op = "none"
    /\ inputs = <<>>
    /\ batch_size = 1
    /\ item = None
    /\ net = <<>>
    /\ model_calls = 0
    /\ step = 0
    /\ predicted_samples = <<>>
    /\ epoch_labels = <<>>
    /\ epoch_predictions = <<>>
    /\ epoch_samples = <<>>
    /\ all_samples = <<>>
    /\ logs = NoMetrics
    /\ result = None
    /\ error = "none"

SampleLists == UNION {[1..n -> Samples] : n \in 0..MaxSamples}

\* predict(inputs, batch_size): the data generator is built, nothing is read yet
CallPredict ==
    /\ pc = "idle"
    /\ \E ins \in SampleLists, B \in 1..MaxBatch :
        /\ inputs' = ins
        /\ batch_size' = B
    /\ pc' = "predict"
    /\ op' = "predict"
    /\ UNCHANGED <<item, net, model_calls, step, predicted_samples, epoch_labels,
                   epoch_predictions, epoch_samples, all_samples, logs, result, error>>

\* for inputs, _, samples in data_generator: ...
PredictBatch ==
    /\ pc = "predict"
    /\ step < GenLen(inputs, batch_size)
    /\ LET samples == GenBatch(inputs, batch_size, step)
           batch_inputs == parse(samples).inputs
       IN  \E nn \in Extensions(net, batch_inputs) :
            /\ net' = nn
            /\ predicted_samples' =
                   PredictStep(predicted_samples, samples, ModelPredict(nn, batch_inputs))
    /\ model_calls' = model_calls + 1
    /\ step' = step + 1
    /\ UNCHANGED <<pc, op, inputs, batch_size, item, epoch_labels, epoch_predictions,
                   epoch_samples, all_samples, logs, result, error>>

\* return predicted_samples
PredictReturn ==
    /\ pc = "predict"
    /\ step >= GenLen(inputs, batch_size)
    /\ result' = predicted_samples
    /\ pc' = "returned"
    /\ UNCHANGED <<op, inputs, batch_size, item, net, model_calls, step, predicted_samples,
                   epoch_labels, epoch_predictions, epoch_samples, all_samples, logs, error>>

\* evaluate(inputs, batch_size): the generator and the Evaluate callback are built
CallEvaluate ==
    /\ pc = "idle"
    /\ \E ins \in SampleLists, B \in 1..MaxBatch :
        /\ inputs' = ins
        /\ batch_size' = B
    /\ pc' = "evaluate"
    /\ op' = "evaluate"
    /\ UNCHANGED <<item, net, model_calls, step, predicted_samples, epoch_labels,
                   epoch_predictions, epoch_samples, all_samples, logs, result, error>>

\* on_epoch_end: for i, (inputs, labels, samples) in zip(range(nb_steps), generator)
EvalBatch ==
    /\ pc = "evaluate"
    /\ step < EpochSteps(inputs, batch_size)
    /\ LET samples == GenBatch(inputs, batch_size, step)
           parsed == parse(samples)
       IN  \E nn \in Extensions(net, parsed.inputs) :
            /\ net' = nn
            /\ epoch_labels' = Append(epoch_labels, parsed.labels)
            /\ epoch_predictions' =
                   Append(epoch_predictions, ModelPredict(nn, parsed.inputs))
            /\ epoch_samples' = Append(epoch_samples, samples)
            /\ all_samples' = all_samples \o samples
    /\ model_calls' = model_calls + 1
    /\ step' = step + 1
    /\ UNCHANGED <<pc, op, inputs, batch_size, item, predicted_samples, logs, result, error>>

\* on_epoch_end after the loop: metrics, decoding, "_processed" metrics, the lists
EvalFinish ==
    /\ pc = "evaluate"
    /\ step >= EpochSteps(inputs, batch_size)
    /\ LET out == EpochEnd(epoch_predictions, epoch_labels, epoch_samples,
                           all_samples, logs)
       IN  /\ pc' = IF out.raised = "none" THEN "returned" ELSE "raised"
           /\ error' = out.raised
           /\ logs' = out.logs
           /\ predicted_samples' = out.predicted
           /\ result' = out.value
    /\ UNCHANGED <<op, inputs, batch_size, item, net, model_calls, step, epoch_labels,
                   epoch_predictions, epoch_samples, all_samples>>

\* word2morph[item]
GetItem ==
    /\ pc = "idle"
    /\ \E it \in Items :
        /\ item' = it
        /\ \E nn \in Extensions(net, <<parse_one(AsSample(it)).inputs>>) :
            /\ net' = nn
            /\ result' = getitem(nn, it)
    /\ model_calls' = model_calls + 1
    /\ pc' = "returned"
    /\ op' = "getitem"
    /\ UNCHANGED <<inputs, batch_size, step, predicted_samples, epoch_labels,
                   epoch_predictions, epoch_samples, all_samples, logs, error>>

Next ==
    \/ CallPredict
    \/ PredictBatch
    \/ PredictReturn
    \/ CallEvaluate
    \/ EvalBatch
    \/ EvalFinish
    \/ GetItem

Spec == Init /\ [][Next]_vars

(***************************************************************************)
(* Properties.                                                             *)
(***************************************************************************)
Returned(o) == op = o /\ pc = "returned"
Finished(o) == op = o /\ pc \in {"returned", "raised"}

Greater(a, b) == a.num * b.den > b.num * a.den
IsOne(a) == a.den > 0 /\ a.num = a.den

\* The decoded Sample of inputs[i] under the network.
Decoded(i) == to_sample(inputs[i].word, net[EncodeWord(inputs[i].word)])

\* The words of an evaluation pass as <<batch, row>>, and their characters
\* as <<batch, row, position>>.
Cells ==
    UNION {{<<b, k>> : k \in 1..Len(epoch_labels[b])} : b \in 1..Len(epoch_labels)}
CharCells == {<<c[1], c[2], pos>> : c \in Cells, pos \in 1..max_word_len}
TrueTag(c) == ArgMax(epoch_labels[c[1]][c[2]][c[3]])
PredTag(c) == ArgMax(epoch_predictions[c[1]][c[2]][c[3]])
SameTags(c) ==
    \A pos \in 1..max_word_len : TrueTag(<<c[1], c[2], pos>>) = PredTag(<<c[1], c[2], pos>>)

\* C1: predict returns one decoded Sample per input, the i-th being
\* to_sample(inputs[i].word, model row of inputs[i]), whatever the batch
\* size; predict([]) returns the empty list.
C1_PredictInOrder ==
    Returned("predict") =>
        /\ Len(result) = Len(inputs)
        /\ \A i \in 1..Len(inputs) : result[i] = Decoded(i)
        /\ (inputs = <<>> => result = <<>>)

C1_Witness ==
    /\ Returned("predict")
    /\ Len(inputs) = 3
    /\ batch_size = 2
    /\ result[1] # result[2]
    /\ result[2] # result[3]

\* C2: for every non-empty input list evaluate returns (correct, wrong,
\* all_predictions): one decoded Sample per input in input order, each
\* position in exactly one of correct / wrong (correct iff the decoded
\* Sample equals the ground truth), both in input order.
C2_EvaluateLists ==
    (Finished("evaluate") /\ inputs # <<>>) =>
        /\ pc = "returned"
        /\ Len(result.all_predictions) = Len(inputs)
        /\ \A i \in 1..Len(inputs) : result.all_predictions[i] = Decoded(i)
        /\ LET good == Sorted({i \in 1..Len(inputs) : Decoded(i) = inputs[i]})
               bad == Sorted({i \in 1..Len(inputs) : Decoded(i) # inputs[i]})
           IN  /\ result.correct =
                      [n \in 1..Len(good) |-> <<Decoded(good[n]), inputs[good[n]]>>]
               /\ result.wrong =
                      [n \in 1..Len(bad) |-> <<Decoded(bad[n]), inputs[bad[n]]>>]
        /\ Len(result.correct) + Len(result.wrong) = Len(inputs)

\* The lists of C2 on the passes on which evaluate does return.
EvaluateListsWhenReturned ==
    Returned("evaluate") =>
        /\ Len(result.all_predictions) = Len(inputs)
        /\ \A i \in 1..Len(inputs) : result.all_predictions[i] = Decoded(i)
        /\ LET good == Sorted({i \in 1..Len(inputs) : Decoded(i) = inputs[i]})
               bad == Sorted({i \in 1..Len(inputs) : Decoded(i) # inputs[i]})
           IN  /\ result.correct =
                      [n \in 1..Len(good) |-> <<Decoded(good[n]), inputs[good[n]]>>]
               /\ result.wrong =
                      [n \in 1..Len(bad) |-> <<Decoded(bad[n]), inputs[bad[n]]>>]
        /\ Len(result.correct) + Len(result.wrong) = Len(inputs)

\* The number of positions at which predict(inputs, batch_size) equals the input.
PredictHits ==
    Cardinality({i \in 1..Len(inputs) : predict(net, inputs, batch_size)[i] = inputs[i]})

\* C3 as stated: evaluate also runs a predict() pass over the same inputs
\* (a second round of model calls, one per batch) and the number of correct
\* pairs it returns equals the number of positions where that pass equals
\* the input.
C3_CrossChecked ==
    Returned("evaluate") =>
        /\ model_calls = 2 * GenLen(inputs, batch_size)
        /\ Len(result.correct) = PredictHits

\* C3 as amended: evaluate calls the model once per batch and never runs
\* predict(); the number of correct pairs it returns equals the number of
\* positions at which predict(inputs, batch_size) equals the input.
C3_AgreesWithPredict ==
    Returned("evaluate") =>
        /\ model_calls = GenLen(inputs, batch_size)
        /\ Len(result.correct) = PredictHits

C3_Witness ==
    /\ Returned("evaluate")
    /\ step >= 2
    /\ Len(result.correct) >= 1
    /\ Len(result.wrong) >= 1

\* A word of the pass whose arg-max tags differ from the label's and whose
\* decoding is the ground-truth Sample.
Repaired(c) ==
    /\ ~SameTags(c)
    /\ to_sample(epoch_samples[c[1]][c[2]].word, epoch_predictions[c[1]][c[2]])
           = epoch_samples[c[1]][c[2]]

\* C4: on a pass with a prediction that decoding repairs into the ground
\* truth, the word accuracy logged under "_processed" is strictly greater
\* than the raw word_acc.
C4_ProcessedExceedsRaw ==
    (Returned("evaluate") /\ \E c \in Cells : Repaired(c)) =>
        Greater(logs["test_word_acc_processed"], logs["test_word_acc"])

\* C5: word2morph[x] is predict([sample], batch_size=1)[0], sample being x
\* or Sample(word=x, segments=()) for a string x.
C5_GetItemIsPredictOfOne ==
    Returned("getitem") => result = predict(net, <<AsSample(item)>>, 1)[1]

C5_Witness ==
    /\ Returned("getitem")
    /\ item.kind = "str"
    /\ Len(result.segments) = 2

\* C6: on every non-empty pass whose predictions equal the one-hot labels,
\* evaluate returns a confusion matrix with zero off-diagonal entries,
\* word_acc = 1 and acc = 1.
C6_ExactPredictions ==
    (Finished("evaluate") /\ epoch_labels # <<>> /\ epoch_predictions = epoch_labels) =>
        /\ pc = "returned"
        /\ LET cm == logs["test_confusion_matrix"]
           IN  \A i \in 1..Len(cm) : \A j \in 1..Len(cm[i]) : i # j => cm[i][j] = 0
        /\ IsOne(logs["test_word_acc"])
        /\ IsOne(logs["test_acc"])

\* C7: word_acc is the number of words whose arg-max tags equal the label's
\* at every position of the padded length, over the number of label rows
\* of all batches.
C7_WordAcc ==
    Returned("evaluate") =>
        logs["test_word_acc"] =
            Ratio(Cardinality({c \in Cells : SameTags(c)}), Cardinality(Cells))

C7_Witness ==
    /\ Returned("evaluate")
    /\ step >= 2
    /\ logs["test_word_acc"].num > 0
    /\ \E c \in Cells :
        LET n == Len(epoch_samples[c[1]][c[2]].word)
        IN  /\ \A pos \in 1..n : TrueTag(<<c[1], c[2], pos>>) = PredTag(<<c[1], c[2], pos>>)
            /\ \E pos \in (n + 1)..max_word_len :
                   TrueTag(<<c[1], c[2], pos>>) # PredTag(<<c[1], c[2], pos>>)

\* The classes that occur among the arg-max labels or predictions of the pass.
Present == {TrueTag(c) : c \in CharCells} \cup {PredTag(c) : c \in CharCells}

\* C8 as stated: the confusion matrix has one row and one column per tag
\* class, entry [i][j] counting the characters with label class i and
\* predicted class j, also when a class does not occur in the pass.
C8_SizeIsNumClasses ==
    Returned("evaluate") =>
        LET cm == logs["test_confusion_matrix"]
        IN  /\ Len(cm) = Cardinality(Classes)
            /\ \A i \in Classes : Len(cm[i + 1]) = Cardinality(Classes)
            /\ \A i, j \in Classes :
                   cm[i + 1][j + 1] =
                       Cardinality({c \in CharCells : TrueTag(c) = i /\ PredTag(c) = j})

\* C8 as amended: the confusion matrix is square with one row and one
\* column per class that occurs among the arg-max labels or predictions of
\* the pass, in increasing class order; entry [i][j] counts the characters
\* whose label is the i-th and whose prediction is the j-th such class.
C8_SizeIsPresentClasses ==
    Returned("evaluate") =>
        LET cm == logs["test_confusion_matrix"]
            labs == Sorted(Present)
        IN  /\ Len(cm) = Cardinality(Present)
            /\ \A i \in 1..Len(labs) : Len(cm[i]) = Cardinality(Present)
            /\ \A i, j \in 1..Len(labs) :
                   cm[i][j] =
                       Cardinality({c \in CharCells :
                                       TrueTag(c) = labs[i] /\ PredTag(c) = labs[j]})

C8_Witness ==
    /\ Returned("evaluate")
    /\ Cardinality(Present) = 2
    /\ logs["test_confusion_matrix"][1][2] # logs["test_confusion_matrix"][2][1]

\* C9: when AUC is undefined because the arg-max labels hold a single
\* class, evaluate signals MetricUndefined for it, and the other metrics
\* and the three lists are still produced.
C9_MetricUndefined ==
    (Finished("evaluate") /\ Cardinality({TrueTag(c) : c \in CharCells}) = 1) =>
        /\ pc = "returned"
        /\ logs["test_auc"] = "MetricUndefined"
        /\ \A m \in MetricNames : prepend_str \o m \in DOMAIN logs
        /\ Len(result.all_predictions) = Len(inputs)

\* C10: evaluate on an empty input list fails with ConfigurationError.
C10_EmptyEvaluate ==
    (Finished("evaluate") /\ inputs = <<>>) =>
        /\ pc = "raised"
        /\ error = "ConfigurationError"

\* predict() as a function agrees with the stepwise loop.
PredictFunctionAgrees ==
    Returned("predict") => result = predict(net, inputs, batch_size)

\* What evaluate does raise: ValueError, on an empty pass (np.argmax) and
\* where roc_auc_score rejects the binarized labels and predictions.
EvaluateRaises ==
    Finished("evaluate") =>
        (pc = "raised") =
            \/ inputs = <<>>
            \/ Cardinality({TrueTag(c) : c \in CharCells}) = 1
            \/ /\ Cardinality({TrueTag(c) : c \in CharCells}) = 2
               /\ Cardinality({PredTag(c) : c \in CharCells}) >= 3

EvaluateRaisesValueError ==
    (op = "evaluate" /\ pc = "raised") => error = "ValueError"
====
